---- MODULE Spec2Model ----
(***************************************************************************)
(* A model of slitflow/fig/figure.py: Figure.save_data, ToTiff.set_info,   *)
(* ToTiff.process and get_stack.                                           *)
(*                                                                         *)
(* Python values are modelled as follows.                                  *)
(*   - A dictionary entry or a value that may be None is a "cell": the     *)
(*     empty tuple <<>> when the key is absent (or the value is None), and *)
(*     the one-element tuple <<v>> when it holds v.                        *)
(*   - A float is an exact rational <<n, d>> in lowest terms with d > 0;   *)
(*     rounding of binary floating point is not modelled.                  *)
(*   - A Python list is a TLA+ sequence (1-based: Python's x[0] is x[1]).  *)
(***************************************************************************)
EXTENDS Integers, Sequences, FiniteSets, TLC

VARIABLES
    pc,        \* position of the one caller: which call has been made and how it ended
    err,       \* the exception the last call raised, "none" when it returned
    req_info,  \* reqs[0].info: the parameters inherited from the upstream stage
    arg,       \* the param dictionary as the caller passed it
    param,     \* the same dictionary object after the call (set_info writes into it)
    info,      \* self.info of the ToTiff object
    fig,       \* reqs[0] of process: the matplotlib figure (axes with artists, dpi)
    canvas,    \* what the backend reports for the figure: width, height, RGB buffer
    stack,     \* the value process / get_stack returned
    ctx,       \* pyplot's process-wide current figure: number of artists drawn in it
    store,     \* the persisted-object store: path -> saved figure (cell)
    calls      \* order of the calls Figure.save_data made in its last invocation

vars == <<pc, err, req_info, arg, param, info, fig, canvas, stack, ctx, store, calls>>

----------------------------------------------------------------------------
(* Bounds of the model. *)

MaxCoord == 2      \* axis limits and physical sizes range over 0..MaxCoord
MaxDpi == 2        \* caller-supplied dpi ranges over 0..MaxDpi
MaxSplit == 1      \* caller-supplied split_depth ranges over 0..MaxSplit
MaxSide == 3       \* canvas width and height range over 1..MaxSide
MaxSeed == 1       \* number of distinct raw buffers per canvas size, minus one
MaxArtists == 3    \* artists drawn into the current figure before a save
MaxPaths == 2      \* paths a figure may be saved to

(* Program constants. *)

DefaultDpi == 400
ByteRange == 256
Channels == 3

----------------------------------------------------------------------------
(* Cells: optional values. *)

None == <<>>
Just(v) == <<v>>
Has(c) == c # <<>>
Get(c) == c[1]

(* Python truthiness of a value that is None, a list or a string. *)
TruthyList(c) == Has(c) /\ Len(Get(c)) > 0
TruthyStr(c) == Has(c) /\ Get(c) # ""

----------------------------------------------------------------------------
(* Exact rational arithmetic standing for Python's float arithmetic. *)

Abs(x) == IF x < 0 THEN -x ELSE x

RECURSIVE GCD(_, _)
GCD(a, b) == IF b = 0 THEN a ELSE GCD(b, a % b)

Norm(n, d) ==
    LET g == GCD(Abs(n), Abs(d))
        s == IF d < 0 THEN -1 ELSE 1
    IN  <<(s * n) \div g, (s * d) \div g>>

Rat(i) == <<i, 1>>
RatAdd(a, b) == Norm(a[1] * b[2] + b[1] * a[2], a[2] * b[2])
RatSub(a, b) == Norm(a[1] * b[2] - b[1] * a[2], a[2] * b[2])
RatMul(a, b) == Norm(a[1] * b[1], a[2] * b[2])
\* defined only for b # 0: Python raises ZeroDivisionError otherwise
RatDiv(a, b) == Norm(a[1] * b[2], a[2] * b[1])
RatIsZero(a) == a[1] = 0

\* the literal 2.54 (centimetres per inch)
CmPerInch == Norm(254, 100)

----------------------------------------------------------------------------
(* slitflow.info.Info, as far as ToTiff uses it.  An Info holds a list of  *)
(* parameter dictionaries {name, value, unit, description}, at most one    *)
(* per name, and the split depth.                                          *)

ParamNames == {"dpi", "limit", "size", "length_unit", "pitch", "scalebar"}

EmptyInfo == [prm |-> [n \in ParamNames |-> None], split_depth |-> None]

Entry(value, unit, description) ==
    [value |-> value, unit |-> unit, description |-> description]

\* Info.copy_req(0): take over every parameter of the required data's info
copy_req(self, req) == [self EXCEPT !.prm = req.prm]

\* Info.add_param(name, value, unit, description)
add_param(self, name, value, unit, description) ==
    [self EXCEPT !.prm[name] = Just(Entry(value, unit, description))]

\* Info.get_param_value(name): the value, None when there is no such parameter
get_param_value(self, name) ==
    IF Has(self.prm[name]) THEN Just(Get(self.prm[name]).value) ELSE None

\* Info.set_split_depth(depth)
set_split_depth(self, depth) == [self EXCEPT !.split_depth = Just(depth)]

----------------------------------------------------------------------------
(* ToTiff.set_info *)

DpiDescription == "Dot per inch of figure image"
PitchDescription == "Pixel size of figure"
\* the literal continues over a line break, so the indentation is part of it
ScalebarDescription ==
    "[length, left, bottom , line_width, line_color] of the scale                 bar"

\* if "dpi" not in param: param["dpi"] = 400
AlwaysDefaultDpi(p) == [p EXCEPT !.dpi = Just(DefaultDpi)]
SetDefaultDpi(p) == IF ~Has(p.dpi) THEN [p EXCEPT !.dpi = Just(DefaultDpi)] ELSE p

\* pixel = size[0] / 2.54 * param["dpi"]
PixelExtentVertical(size, dpi) == RatMul(RatDiv(Rat(size[2]), CmPerInch), Rat(dpi))
PixelExtent(size, dpi) == RatMul(RatDiv(Rat(size[1]), CmPerInch), Rat(dpi))

\* (limit[1] - limit[0]) / pixel, for pixel # 0
Pitch(limit, pixel) == RatDiv(Rat(Get(limit[2]) - Get(limit[1])), pixel)

\* the calibration block: [info, err] after it
CalibrateUnguarded(self, dpi) ==
    LET limit == get_param_value(self, "limit")
        size == get_param_value(self, "size")
        length_unit == get_param_value(self, "length_unit")
    IN  IF TruthyList(limit) /\ TruthyList(size) /\ TruthyStr(length_unit)
        THEN LET pixel == PixelExtent(Get(size), dpi)
             IN  IF RatIsZero(pixel)
                 THEN [info |-> self, err |-> "ZeroDivisionError"]
                 ELSE [info |-> add_param(self, "pitch",
                                    RatDiv(Rat(IF Has(Get(limit)[1])
                                               THEN Get(Get(limit)[2]) - Get(Get(limit)[1])
                                               ELSE Get(Get(limit)[2])), pixel),
                                    Get(length_unit), PitchDescription),
                       err |-> "none"]
        ELSE [info |-> self, err |-> "none"]
Calibrate(self, dpi) ==
    LET limit == get_param_value(self, "limit")
        size == get_param_value(self, "size")
        length_unit == get_param_value(self, "length_unit")
    IN  IF TruthyList(limit) /\ TruthyList(size) /\ TruthyStr(length_unit)
        THEN LET pixel == PixelExtent(Get(size), dpi)
             IN  IF Has(Get(limit)[1])
                 THEN IF RatIsZero(pixel)
                      THEN [info |-> self, err |-> "ZeroDivisionError"]
                      ELSE [info |-> add_param(self, "pitch",
                                         Pitch(Get(limit), pixel),
                                         Get(length_unit), PitchDescription),
                            err |-> "none"]
                 ELSE [info |-> self, err |-> "none"]
        ELSE [info |-> self, err |-> "none"]

\* if "scalebar" in param: self.info.add_param("scalebar", ...)
AddScalebar(self, p) ==
    IF Has(p.scalebar)
    THEN add_param(self, "scalebar", Get(p.scalebar), "list", ScalebarDescription)
    ELSE self

\* self.info.set_split_depth(param["split_depth"]): [info, err] after it
SplitDepthDefaulted(self, p) ==
    [info |-> set_split_depth(self, IF Has(p.split_depth) THEN Get(p.split_depth) ELSE 0),
     err |-> "none"]
SplitDepth(self, p) ==
    IF Has(p.split_depth)
    THEN [info |-> set_split_depth(self, Get(p.split_depth)), err |-> "none"]
    ELSE [info |-> self, err |-> "KeyError"]

\* the whole method: the info, the caller's dictionary and the exception after it
set_info(req, p) ==
    LET i0 == copy_req(EmptyInfo, req)
        p1 == SetDefaultDpi(p)
        i1 == add_param(i0, "dpi", Get(p1.dpi), "int", DpiDescription)
        c == Calibrate(i1, Get(p1.dpi))
    IN  IF c.err # "none"
        THEN [info |-> c.info, param |-> p1, err |-> c.err]
        ELSE LET s == SplitDepth(AddScalebar(c.info, p1), p1)
             IN  [info |-> s.info, param |-> p1, err |-> s.err]

----------------------------------------------------------------------------
(* Inputs *)

Coords == 0..MaxCoord

\* [left, right, bottom, top]; the left limit may be None
Limits ==
    {<<l0, Just(l1), Just(l2), Just(l3)>> :
        l0 \in {None} \cup {Just(x) : x \in 0..(MaxCoord - 1)},
        l1 \in Coords, l2 \in 0..1, l3 \in 1..MaxCoord}

Sizes == {<<w, h>> : w \in Coords, h \in 1..MaxCoord}

Color == <<255, 255, 255>>

\* [length, left position, bottom position, line width, line color]
Scalebars ==
    {<<length, Norm(rl, 10), Norm(rb, 10), 1, Color>> :
        length \in 1..MaxCoord, rl \in {1, 5}, rb \in {2, 10}}

ReqInfos ==
    {[prm |-> [n \in ParamNames |->
                 CASE n = "limit" -> IF l = None THEN None ELSE Just(Entry(Get(l), "none", "limit"))
                   [] n = "size" -> IF s = None THEN None ELSE Just(Entry(Get(s), "cm", "size"))
                   [] n = "length_unit" -> IF u = None THEN None ELSE Just(Entry(Get(u), "str", "unit"))
                   [] n = "pitch" -> IF op THEN Just(Entry(Rat(1), "pix", "old pitch")) ELSE None
                   [] n = "dpi" -> IF od THEN Just(Entry(72, "int", "old dpi")) ELSE None
                   [] OTHER -> None],
      split_depth |-> None] :
        l \in {None} \cup {Just(x) : x \in Limits},
        s \in {None} \cup {Just(x) : x \in Sizes},
        u \in {None, Just("um")},
        op \in BOOLEAN, od \in BOOLEAN}

NoParam == [dpi |-> None, scalebar |-> None, split_depth |-> None, limit |-> None]

InfoParams ==
    {[dpi |-> d, scalebar |-> sb, split_depth |-> sd, limit |-> None] :
        d \in {None} \cup {Just(x) : x \in 0..MaxDpi},
        sb \in {None, Just(<<1, Norm(1, 10), Norm(2, 10), 1, Color>>)},
        sd \in {None} \cup {Just(x) : x \in 0..MaxSplit}}

NoFig == [axes |-> <<>>, dpi |-> 0]
NoCanvas == [w |-> 0, h |-> 0, raw |-> <<>>]

----------------------------------------------------------------------------
(* A ToTiff object is built on an upstream info and set_info is called once *)

InitInfo ==
    /\ pc = "new"
    /\ err = "none"
    /\ req_info \in ReqInfos
    /\ arg = NoParam
    /\ param = NoParam
    /\ info = EmptyInfo
    /\ fig = NoFig
    /\ canvas = NoCanvas
    /\ stack = <<>>
    /\ ctx = 0
    /\ store = <<>>
    /\ calls = <<>>

SetInfo(p) ==
    /\ LET r == set_info(req_info, p)
       IN  /\ info' = r.info
           /\ param' = r.param
           /\ err' = r.err
    /\ arg' = p
    /\ pc' = "set_info"
    /\ UNCHANGED <<req_info, fig, canvas, stack, ctx, store, calls>>

\* one call per object: nothing follows it
NextInfo == pc = "new" /\ \E p \in InfoParams : SetInfo(p)

SpecInfo == InitInfo /\ [][NextInfo]_vars

----------------------------------------------------------------------------
(* get_stack *)

\* fig.canvas.get_width_height()[::-1] + (3,)
Shape(wh) == <<wh[2], wh[1]>> \o <<Channels>>

\* numpy reshape of a flat row-major buffer to a (d1, d2, d3) array
Reshape(raw, shape) ==
    [i \in 1..shape[1] |->
        [j \in 1..shape[2] |->
            [k \in 1..shape[3] |->
                raw[((i - 1) * shape[2] + (j - 1)) * shape[3] + k]]]]

\* fig_rgb[:, :, c] for the Python index c
ChannelSlice(a, c) == [i \in DOMAIN a |-> [j \in DOMAIN a[i] |-> a[i][j][c + 1]]]

\* numpy.flipud: reverse the order of the rows
NoFlip(m) == m
Flipud(m) == LET rows == Cardinality(DOMAIN m) IN [i \in 1..rows |-> m[rows - i + 1]]

\* the list get_stack returns for a canvas [w, h, raw]
get_stack(cv) ==
    LET fig_rgb == Reshape(cv.raw, Shape(<<cv.w, cv.h>>))
    IN  <<Flipud(ChannelSlice(fig_rgb, 0)),
          Flipud(ChannelSlice(fig_rgb, 1)),
          Flipud(ChannelSlice(fig_rgb, 2))>>

----------------------------------------------------------------------------
(* ToTiff.process *)

\* the limits are numbers where the subtraction needs them
Numeric(limit, a, b) == Has(limit[a]) /\ Has(limit[b])

\* left = width * scalebar[1] + limit[0], bottom = height * scalebar[2] + limit[2]
BarLeftNoOffset(limit, sb) == RatMul(Rat(Get(limit[2]) - Get(limit[1])), sb[2])
BarLeft(limit, sb) ==
    RatAdd(RatMul(Rat(Get(limit[2]) - Get(limit[1])), sb[2]), Rat(Get(limit[1])))
BarBottom(limit, sb) ==
    RatAdd(RatMul(Rat(Get(limit[4]) - Get(limit[3])), sb[3]), Rat(Get(limit[3])))

\* the Line2D that axes.plot([left, left + length], [bottom, bottom], ...) adds
BarLine(limit, sb) ==
    LET left == BarLeft(limit, sb)
        bottom == BarBottom(limit, sb)
    IN  [x |-> <<left, RatAdd(left, Rat(sb[1]))>>,
         y |-> <<bottom, bottom>>,
         linewidth |-> sb[4],
         color |-> <<Norm(sb[5][1], 255), Norm(sb[5][2], 255), Norm(sb[5][3], 255)>>]

\* the scale bar block: [fig, err] after it
SkipIncompleteBar(f, p) ==
    IF Has(p.scalebar) /\ Has(p.limit) /\ Numeric(Get(p.limit), 1, 2)
          /\ Numeric(Get(p.limit), 3, 4) /\ Len(f.axes) > 0
    THEN [fig |-> [f EXCEPT !.axes[1] =
                        Append(@, BarLine(Get(p.limit), Get(p.scalebar)))],
          err |-> "none"]
    ELSE [fig |-> f, err |-> "none"]
DrawScaleBar(f, p) ==
    IF ~Has(p.scalebar) THEN [fig |-> f, err |-> "none"]
    ELSE IF ~Has(p.limit) THEN [fig |-> f, err |-> "KeyError"]
    ELSE IF ~Numeric(Get(p.limit), 1, 2) \/ ~Numeric(Get(p.limit), 3, 4)
         THEN [fig |-> f, err |-> "TypeError"]
    ELSE IF Len(f.axes) = 0 THEN [fig |-> f, err |-> "IndexError"]
    ELSE [fig |-> [f EXCEPT !.axes[1] =
                       Append(@, BarLine(Get(p.limit), Get(p.scalebar)))],
          err |-> "none"]

\* stack = np.array(get_stack(fig, param["dpi"])): [fig, stack, err] after it
Rasterize(f, p, cv) ==
    IF ~Has(p.dpi) THEN [fig |-> f, stack |-> <<>>, err |-> "KeyError"]
    ELSE [fig |-> [f EXCEPT !.dpi = Get(p.dpi)], stack |-> get_stack(cv), err |-> "none"]

\* the whole method on figure f, with cv the canvas the backend draws
process(f, p, cv) ==
    LET d == DrawScaleBar(f, p)
    IN  IF d.err # "none" THEN [fig |-> d.fig, stack |-> <<>>, err |-> d.err]
        ELSE Rasterize(d.fig, p, cv)

----------------------------------------------------------------------------
(* Inputs of process *)

\* the limits of the worked example: [0, 10, 0, 5]
ExampleLimit == <<Just(0), Just(10), Just(0), Just(5)>>

SomeLine == [x |-> <<Rat(0), Rat(1)>>, y |-> <<Rat(0), Rat(1)>>,
             linewidth |-> 1, color |-> <<Rat(0), Rat(0), Rat(0)>>]

\* figures: one or two axes, the first empty or holding a line already
Figs ==
    {[axes |-> a, dpi |-> 100] : a \in {<< <<>> >>, << <<SomeLine>> >>, << <<>>, <<SomeLine>> >>}}

\* param["limit"]: the worked example, and limits with a left limit that may be None
ProcessLimits ==
    {ExampleLimit} \cup
    {<<l0, Just(l1), Just(l2), Just(MaxCoord)>> :
        l0 \in {None, Just(0), Just(1)}, l1 \in 1..MaxCoord, l2 \in 0..1}

ProcessParams ==
    {[dpi |-> d, scalebar |-> sb, split_depth |-> None, limit |-> l] :
        d \in {None} \cup {Just(x) : x \in 1..MaxDpi},
        sb \in {None} \cup {Just(x) : x \in Scalebars},
        l \in {None} \cup {Just(x) : x \in ProcessLimits}}

\* a raw buffer of n bytes, all different as long as n <= 256
RawBuffer(seed, n) == [i \in 1..n |-> (seed * 100 + i - 1) % ByteRange]

\* what the backend reports after canvas.draw(): size and tostring_rgb()
Canvases ==
    {[w |-> w, h |-> h, raw |-> RawBuffer(seed, w * h * Channels)] :
        w \in 1..MaxSide, h \in 1..MaxSide, seed \in 0..MaxSeed}

InitProcess ==
    /\ pc = "new"
    /\ err = "none"
    /\ req_info = EmptyInfo
    /\ arg = NoParam
    /\ param = NoParam
    /\ info = EmptyInfo
    /\ fig \in Figs
    /\ canvas = NoCanvas
    /\ stack = <<>>
    /\ ctx = 0
    /\ store = <<>>
    /\ calls = <<>>

Process(p, cv) ==
    /\ LET r == process(fig, p, cv)
       IN  /\ fig' = r.fig
           /\ stack' = r.stack
           /\ err' = r.err
           /\ canvas' = IF r.stack = <<>> THEN canvas ELSE cv
    /\ arg' = p
    /\ param' = p
    /\ pc' = "process"
    /\ UNCHANGED <<req_info, info, ctx, store, calls>>

\* one call per figure: nothing follows it
NextProcess == pc = "new" /\ \E p \in ProcessParams, cv \in Canvases : Process(p, cv)

SpecProcess == InitProcess /\ [][NextProcess]_vars

----------------------------------------------------------------------------
(* Figure.save_data.  pyplot keeps one current figure for the whole        *)
(* process; ctx counts the artists drawn in it, and that figure is the     *)
(* data handed to save_data.                                               *)

Paths == 1..MaxPaths

\* Pickle.save_data(data, path): writes the pickle, or fails with OSError
PickleSaveData(st, data, path, ok) ==
    IF ok THEN [store |-> [st EXCEPT ![path] = Just(data)], err |-> "none"]
    ELSE [store |-> st, err |-> "OSError"]

\* plt.clf(): clear the current figure
Clf(c) == 0

\* the whole method: the store, the current figure, the calls made, the exception
save_data(st, c, path, ok) ==
    LET w == PickleSaveData(st, c, path, ok)
    IN  IF w.err # "none"
        THEN [store |-> w.store, ctx |-> c, calls |-> <<"Pickle.save_data">>,
              err |-> w.err]
        ELSE [store |-> w.store, ctx |-> Clf(c),
              calls |-> <<"Pickle.save_data", "plt.clf">>, err |-> "none"]

InitSave ==
    /\ pc = "new"
    /\ err = "none"
    /\ req_info = EmptyInfo
    /\ arg = NoParam
    /\ param = NoParam
    /\ info = EmptyInfo
    /\ fig = NoFig
    /\ canvas = NoCanvas
    /\ stack = <<>>
    /\ ctx = 0
    /\ store = [q \in Paths |-> None]
    /\ calls = <<>>

\* the upstream stage draws one more artist into the current figure
Draw ==
    /\ ctx < MaxArtists
    /\ ctx' = ctx + 1
    /\ pc' = "draw"
    /\ err' = "none"
    /\ calls' = <<>>
    /\ UNCHANGED <<req_info, arg, param, info, fig, canvas, stack, store>>

SaveData(path, ok) ==
    /\ LET r == save_data(store, ctx, path, ok)
       IN  /\ store' = r.store
           /\ ctx' = r.ctx
           /\ calls' = r.calls
           /\ err' = r.err
    /\ pc' = "save_data"
    /\ UNCHANGED <<req_info, arg, param, info, fig, canvas, stack>>

NextSave ==
    \/ Draw
    \/ \E path \in Paths, ok \in BOOLEAN : SaveData(path, ok)

SpecSave == InitSave /\ [][NextSave]_vars

----------------------------------------------------------------------------
(* Properties of ToTiff.set_info, stated on the state after the call.      *)

SetInfoCalled == pc = "set_info"

\* the inherited value of a parameter (a cell)
Inherited(name) == get_param_value(req_info, name)

\* limit, size and length_unit are all inherited
CalibrationInputs ==
    Has(Inherited("limit")) /\ Has(Inherited("size")) /\ Has(Inherited("length_unit"))

LeftLimit == Get(Inherited("limit"))[1]
RightLimit == Get(Inherited("limit"))[2]
Width == Get(Inherited("size"))[1]

\* the dpi the call works with: the caller's, 400 without one
UsedDpi == IF Has(arg.dpi) THEN Get(arg.dpi) ELSE 400

MetaHas(name) == Has(info.prm[name])
Meta(name) == Get(info.prm[name])

(* C1: after set_info on a param without "dpi" (and with split_depth),     *)
(* nothing inherited under "dpi", the metadata holds dpi = 400 tagged      *)
(* "int"; with a dpi in param the metadata dpi is that value.              *)
C1_DpiDefault ==
    SetInfoCalled =>
        /\ (~Has(arg.dpi) /\ ~Has(Inherited("dpi")) /\ Has(arg.split_depth))
              => /\ MetaHas("dpi")
                 /\ Meta("dpi").value = 400
                 /\ Meta("dpi").unit = "int"
        /\ Has(arg.dpi)
              => /\ MetaHas("dpi")
                 /\ Meta("dpi").value = Get(arg.dpi)

C1_Witness ==
    /\ SetInfoCalled /\ err = "none"
    /\ ~Has(arg.dpi) /\ ~Has(Inherited("dpi")) /\ Has(arg.split_depth)
    /\ MetaHas("dpi") /\ Meta("dpi").value = 400

\* the pixel extent size[0] / 2.54 * dpi is zero while the pitch is to be computed
ZeroPixelCase ==
    /\ CalibrationInputs
    /\ Has(LeftLimit)
    /\ (UsedDpi = 0 \/ Width = 0)

(* C3: with a zero pixel extent (dpi = 0 or size[0] = 0), all calibration  *)
(* inputs present and limit[0] not None, set_info ends in an               *)
(* InvalidCalibration error raised before any division.                    *)
C3_InvalidCalibration ==
    (SetInfoCalled /\ ZeroPixelCase) => err = "InvalidCalibration"

\* the cases in which no pitch is to be computed
NoPitchCase ==
    \/ ~CalibrationInputs
    \/ (CalibrationInputs /\ ~Has(LeftLimit))

(* C6, as claimed: when limit[0] is None or one of limit, size and         *)
(* length_unit is absent, and no pitch is inherited, the metadata has no   *)
(* "pitch" and the call raises no error.                                   *)
C6_NoPitchNoError ==
    (SetInfoCalled /\ NoPitchCase /\ ~Has(Inherited("pitch")))
        => (~MetaHas("pitch") /\ err = "none")

(* C6, amended: in those cases the metadata has no "pitch", and the call   *)
(* raises no error exactly when param supplies split_depth; without it the *)
(* call ends in the KeyError of the split_depth lookup.                    *)
C6_NoPitch ==
    (SetInfoCalled /\ NoPitchCase /\ ~Has(Inherited("pitch")))
        => /\ ~MetaHas("pitch")
           /\ Has(arg.split_depth) => err = "none"
           /\ ~Has(arg.split_depth) => err = "KeyError"

C6_Witness ==
    /\ SetInfoCalled /\ err = "none"
    /\ CalibrationInputs /\ ~Has(LeftLimit) /\ ~Has(Inherited("pitch"))
    /\ Has(arg.split_depth)
    /\ ~MetaHas("pitch")

\* dpi > 0, size[0] > 0, limit[1] > limit[0], length_unit present
PitchCase ==
    /\ CalibrationInputs
    /\ Has(LeftLimit)
    /\ UsedDpi > 0
    /\ Width > 0
    /\ Get(RightLimit) > Get(LeftLimit)

(* C7: for dpi > 0, size[0] > 0 and limit[1] > limit[0] the metadata pitch *)
(* p satisfies p = (limit[1] - limit[0]) / (size[0] / 2.54 * dpi), that    *)
(* is p * size[0] * dpi * 100 = (limit[1] - limit[0]) * 254, and carries   *)
(* the inherited length_unit; limit[2], limit[3] and size[1] play no part. *)
C7_Pitch ==
    (SetInfoCalled /\ PitchCase)
        => /\ MetaHas("pitch")
           /\ Meta("pitch").value[2] > 0
           /\ Meta("pitch").value[1] * Width * UsedDpi * 100
                 = Meta("pitch").value[2] * (Get(RightLimit) - Get(LeftLimit)) * 254
           /\ Meta("pitch").unit = Get(Inherited("length_unit"))

\* a case in which the vertical and the horizontal calibration differ
C7_Witness ==
    /\ SetInfoCalled /\ PitchCase /\ err = "none"
    /\ Get(Inherited("size"))[2] # Width
    /\ Get(Get(Inherited("limit"))[4]) - Get(Get(Inherited("limit"))[3])
          # Get(RightLimit) - Get(LeftLimit)
    /\ MetaHas("pitch")

\* what the split_depth KeyError leaves behind: dpi, pitch and scalebar are
\* in the metadata where they apply, and the caller's param holds the dpi
AugmentedBeforeLookup ==
    /\ MetaHas("dpi") /\ Meta("dpi").value = UsedDpi
    /\ Has(param.dpi) /\ Get(param.dpi) = UsedDpi
    /\ (CalibrationInputs /\ Has(LeftLimit)) => MetaHas("pitch")
    /\ Has(arg.scalebar)
          => (MetaHas("scalebar") /\ Meta("scalebar").value = Get(arg.scalebar))

(* C10, as claimed: with split_depth in param the metadata's split depth   *)
(* after the call is that value; without it the call fails, no default is  *)
(* substituted, and the failure of the lookup comes after dpi (pitch,      *)
(* scalebar) were added and dpi was written into the caller's param.       *)
C10_SplitDepthAlwaysSet ==
    SetInfoCalled =>
        /\ Has(arg.split_depth) => info.split_depth = arg.split_depth
        /\ ~Has(arg.split_depth) => (err # "none" /\ info.split_depth = None)
        /\ err = "KeyError" => (~Has(arg.split_depth) /\ AugmentedBeforeLookup)

(* C10, amended: with split_depth in param the metadata's split depth is   *)
(* that value when the call returns; when the calibration step raises      *)
(* first (zero pixel extent) the split depth stays unset.  The rest as     *)
(* claimed.                                                                *)
C10_SplitDepth ==
    SetInfoCalled =>
        /\ (Has(arg.split_depth) /\ err = "none")
              => info.split_depth = arg.split_depth
        /\ (Has(arg.split_depth) /\ err # "none")
              => (ZeroPixelCase /\ info.split_depth = None)
        /\ ~Has(arg.split_depth) => (err # "none" /\ info.split_depth = None)
        /\ err = "KeyError" => (~Has(arg.split_depth) /\ AugmentedBeforeLookup)

\* the call with the default param {} on a fully calibrated upstream info
C10_Witness ==
    /\ SetInfoCalled /\ arg = NoParam /\ err = "KeyError"
    /\ CalibrationInputs /\ Has(LeftLimit)
    /\ info.split_depth = None
    /\ MetaHas("pitch")
    /\ Get(param.dpi) = 400

----------------------------------------------------------------------------
(* Properties of ToTiff.process and get_stack.                             *)

ProcessCalled == pc = "process"

\* param holds "scalebar" and a "limit" of four numbers
BarCase(p) ==
    /\ Has(p.scalebar) /\ Has(p.limit)
    /\ \A i \in 1..4 : Has(Get(p.limit)[i])

\* "scalebar" is asked for without the limits to place it
MissingLimitCase(p) ==
    /\ Has(p.scalebar)
    /\ (~Has(p.limit) \/ ~Has(Get(p.limit)[1]))

\* q is the rational a * r + b
IsScaled(q, a, r, b) == q[2] > 0 /\ q[1] * r[2] = q[2] * (a * r[1] + b * r[2])

\* q is the rational r + b
IsShifted(q, r, b) == q[2] > 0 /\ q[1] * r[2] = q[2] * (r[1] + b * r[2])

\* line runs from (left, bottom) to (left + length, bottom) as the claim computes them
IsBar(line, p) ==
    LET sb == Get(p.scalebar)
        xmin == Get(Get(p.limit)[1])
        xmax == Get(Get(p.limit)[2])
        ymin == Get(Get(p.limit)[3])
        ymax == Get(Get(p.limit)[4])
    IN  /\ IsScaled(line.x[1], xmax - xmin, sb[2], xmin)
        /\ IsShifted(line.x[2], line.x[1], sb[1])
        /\ IsScaled(line.y[1], ymax - ymin, sb[3], ymin)
        /\ line.y[2] = line.y[1]

(* C2: a call of process on a param without "dpi" (and with nothing wrong  *)
(* about the scale bar) raises no error and rasterizes at dpi 400.         *)
C2_ProcessDefaultDpi ==
    (ProcessCalled /\ ~Has(arg.dpi) /\ (~Has(arg.scalebar) \/ BarCase(arg)))
        => (err = "none" /\ fig.dpi = 400 /\ stack # <<>>)

(* C5, as claimed: when "scalebar" is in param but "limit" is not, or      *)
(* limit[0] is None, process raises no error, adds no artist and returns   *)
(* the raster.                                                             *)
C5_SilentSkip ==
    [][(pc' = "process" /\ MissingLimitCase(arg') /\ Has(arg'.dpi))
          => (err' = "none" /\ fig'.axes = fig.axes /\ stack' # <<>>)]_vars

(* C5, amended: in that case process adds no artist, returns no raster and *)
(* ends in an error: KeyError without "limit", TypeError when limit[0] is  *)
(* None.                                                                   *)
C5_MissingLimitRaises ==
    [][(pc' = "process" /\ MissingLimitCase(arg'))
          => /\ fig'.axes = fig.axes
             /\ stack' = <<>>
             /\ ~Has(arg'.limit) => err' = "KeyError"
             /\ Has(arg'.limit) => err' = "TypeError"]_vars

C5_Witness ==
    /\ ProcessCalled
    /\ Has(arg.scalebar) /\ Has(arg.limit) /\ ~Has(Get(arg.limit)[1]) /\ Has(arg.dpi)
    /\ err = "TypeError"
    /\ stack = <<>>

(* C8: a call of process with "scalebar" and a numeric "limit" adds exactly *)
(* one line, to the first axes only, from (left, bottom) to                 *)
(* (left + length, bottom), left = (xmax - xmin) * rel_left + xmin and      *)
(* bottom = (ymax - ymin) * rel_bottom + ymin; a call without "scalebar"    *)
(* adds no artist.                                                          *)
C8_ScaleBar ==
    [][/\ (pc' = "process" /\ BarCase(arg'))
            => /\ Len(fig'.axes) = Len(fig.axes)
               /\ Len(fig'.axes[1]) = Len(fig.axes[1]) + 1
               /\ SubSeq(fig'.axes[1], 1, Len(fig.axes[1])) = fig.axes[1]
               /\ IsBar(fig'.axes[1][Len(fig'.axes[1])], arg')
               /\ \A i \in 2..Len(fig.axes) : fig'.axes[i] = fig.axes[i]
       /\ (pc' = "process" /\ ~Has(arg'.scalebar)) => fig'.axes = fig.axes]_vars

\* limit = [0, 10, 0, 5], rel_left = 0.1, rel_bottom = 0.2, length = 2: (1, 1)-(3, 1)
C8_Witness ==
    /\ ProcessCalled
    /\ Has(arg.scalebar) /\ Has(arg.limit)
    /\ arg.limit = Just(ExampleLimit)
    /\ Get(arg.scalebar)[1] = 2
    /\ Get(arg.scalebar)[2] = <<1, 10>>
    /\ Get(arg.scalebar)[3] = <<1, 5>>
    /\ Len(fig.axes) = 2
    /\ Len(fig.axes[1]) = 1
    /\ fig.axes[1][1].x = <<Rat(1), Rat(3)>>
    /\ fig.axes[1][1].y = <<Rat(1), Rat(1)>>

(* C9: get_stack returns three channels of H rows by W columns with        *)
(* out[c][r][x] = raw[((H - 1 - r) * W + x) * 3 + c] (indices from 0).     *)
C9_StackLayout ==
    (ProcessCalled /\ err = "none")
        => /\ Len(stack) = 3
           /\ \A c \in 0..2 :
                /\ Len(stack[c + 1]) = canvas.h
                /\ \A r \in 0..(canvas.h - 1) :
                     /\ Len(stack[c + 1][r + 1]) = canvas.w
                     /\ \A x \in 0..(canvas.w - 1) :
                          stack[c + 1][r + 1][x + 1]
                            = canvas.raw[((canvas.h - 1 - r) * canvas.w + x) * 3 + c + 1]

\* a canvas that is not square and has more than one row
C9_Witness ==
    /\ ProcessCalled /\ err = "none"
    /\ canvas.h > 1 /\ canvas.w # canvas.h
    /\ Len(stack) = 3
    /\ stack[1][1][1] = canvas.raw[(canvas.h - 1) * canvas.w * 3 + 1]
    /\ stack[1][1][1] # canvas.raw[1]

----------------------------------------------------------------------------
(* Properties of Figure.save_data.                                         *)

(* C4: on every exit of save_data, after a store save that succeeded or    *)
(* failed, the drawing context has been cleared, and the clear comes after *)
(* the attempt to save.                                                    *)
C4_AlwaysCleared ==
    pc = "save_data"
        => /\ ctx = 0
           /\ \A i \in 1..Len(calls) :
                calls[i] = "plt.clf"
                    => \E j \in 1..(i - 1) : calls[j] = "Pickle.save_data"

====
